---- MODULE Spec2Model ----
(***************************************************************************)
(* A model of the paper store of auto-paper-digest (src/apd/db.py), of the *)
(* scraper that feeds it (src/apd/hf_fetcher.py), of the digest            *)
(* (src/apd/digest.py) and of the publisher (src/apd/publisher.py).        *)
(*                                                                         *)
(* Text that the code inspects character by character (period identifiers, *)
(* paper identifiers) is a sequence of one-character strings; text that    *)
(* the code only stores and returns is an opaque string.  Python's None is *)
(* the value None.                                                         *)
(***************************************************************************)
EXTENDS Integers, Sequences, FiniteSets, TLC

VARIABLES
    papers,           \* the rows of table papers
    now,              \* the clock now_iso() reads
    last,             \* the last call: its name, its arguments, what it returned
    failed_attempts,  \* per paper, the update_status calls with increment_retry=True that found it
    metadata,         \* metadata.json of the dataset: the index of published papers
    inflight          \* per process, the upsert_paper call it is in the middle of

vars == <<papers, now, last, failed_attempts, metadata, inflight>>

None == "<None>"

\* ------------------------------------------------------------------ text

Digits == {"0", "1", "2", "3", "4", "5", "6", "7", "8", "9"}

DigitVal(c) ==
    CASE c = "0" -> 0 [] c = "1" -> 1 [] c = "2" -> 2 [] c = "3" -> 3
      [] c = "4" -> 4 [] c = "5" -> 5 [] c = "6" -> 6 [] c = "7" -> 7
      [] c = "8" -> 8 [] c = "9" -> 9

DigitChar(n) == <<"0", "1", "2", "3", "4", "5", "6", "7", "8", "9">>[n + 1]

\* The byte value of a character, as SQLite's BINARY collation compares text.
CharCode(c) ==
    CASE c = "-" -> 45 [] c = "." -> 46 [] OTHER -> 48 + DigitVal(c)

\* int(s) of a run of decimal digits.
RECURSIVE ParseInt(_)
ParseInt(s) ==
    IF s = <<>> THEN 0
    ELSE 10 * ParseInt(SubSeq(s, 1, Len(s) - 1)) + DigitVal(s[Len(s)])

\* n written with at least two digits: "%m", "%d" and ":02d".
Pad2(n) == <<DigitChar((n \div 10) % 10), DigitChar(n % 10)>>

\* n written with four digits: "%Y" of a year from 1000 to 9999.
Pad4(n) ==
    <<DigitChar((n \div 1000) % 10), DigitChar((n \div 100) % 10),
      DigitChar((n \div 10) % 10), DigitChar(n % 10)>>

\* s.split("-")
RECURSIVE SplitDash(_)
SplitDash(s) ==
    IF \A i \in 1..Len(s) : s[i] # "-" THEN <<s>>
    ELSE LET i == CHOOSE k \in 1..Len(s) :
                      s[k] = "-" /\ \A j \in 1..(k - 1) : s[j] # "-"
         IN <<SubSeq(s, 1, i - 1)>> \o SplitDash(SubSeq(s, i + 1, Len(s)))

\* s < t as SQLite orders TEXT: byte by byte, a prefix first.
RECURSIVE TextLess(_, _)
TextLess(s, t) ==
    IF t = <<>> THEN FALSE
    ELSE IF s = <<>> THEN TRUE
    ELSE IF CharCode(s[1]) # CharCode(t[1]) THEN CharCode(s[1]) < CharCode(t[1])
    ELSE TextLess(Tail(s), Tail(t))

\* ------------------------------------------------- datetime and timedelta

IsLeap(y) == (y % 4 = 0) /\ ((y % 100 # 0) \/ (y % 400 = 0))

DaysInMonth(y, m) ==
    IF m = 2 THEN (IF IsLeap(y) THEN 29 ELSE 28)
    ELSE IF m \in {4, 6, 9, 11} THEN 30 ELSE 31

DaysBeforeYear(y) ==
    LET p == y - 1 IN p * 365 + (p \div 4) - (p \div 100) + (p \div 400)

\* The days of year y before the first of month m.
DaysBeforeMonth(y, m) ==
    <<0, 31, 59, 90, 120, 151, 181, 212, 243, 273, 304, 334>>[m]
        + (IF m > 2 /\ IsLeap(y) THEN 1 ELSE 0)

\* datetime(y, m, d) as its proleptic Gregorian ordinal (0001-01-01 is day 1).
ToOrdinal(y, m, d) == DaysBeforeYear(y) + DaysBeforeMonth(y, m) + d

\* datetime.weekday(): Monday is 0, Sunday is 6.
Weekday(ord) == (ord + 6) % 7

\* The year an ordinal falls in.
YearOf(ord) ==
    CHOOSE y \in (ord \div 366)..((ord \div 365) + 1) :
        DaysBeforeYear(y) < ord /\ ord <= DaysBeforeYear(y + 1)

\* The month the n-th day of year y falls in.
MonthOf(y, n) ==
    CHOOSE m \in 1..12 :
        DaysBeforeMonth(y, m) < n /\ n <= DaysBeforeMonth(y, m) + DaysInMonth(y, m)

DateInMonth(y, m, n) == [year |-> y, month |-> m, day |-> n - DaysBeforeMonth(y, m)]

DateInYear(y, ord) ==
    DateInMonth(y, MonthOf(y, ord - DaysBeforeYear(y)), ord - DaysBeforeYear(y))

\* The year, month and day of an ordinal.
FromOrdinal(ord) == DateInYear(YearOf(ord), ord)

\* day.strftime("%Y-%m-%d")
FormatDate(t) ==
    Pad4(t.year) \o <<"-">> \o Pad2(t.month) \o <<"-">> \o Pad2(t.day)

Strftime(ord) == FormatDate(FromOrdinal(ord))

\* ------------------------------------------------------ period matching

\* re.match(r'^\d{4}-\d{2}$', period_id)
IsWeekFormat(period_id) ==
    /\ Len(period_id) = 7
    /\ \A i \in {1, 2, 3, 4, 6, 7} : period_id[i] \in Digits
    /\ period_id[5] = "-"

\* WeekMonday with timedelta(weeks=week) in place of weeks=week - 1.
WeekMonday_NoOffset(year, week) ==
    (ToOrdinal(year, 1, 4) - Weekday(ToOrdinal(year, 1, 4))) + 7 * week

\* The ordinal of the Monday the code takes for week `week` of `year`.
WeekMonday(year, week) ==
    LET jan4 == ToOrdinal(year, 1, 4)
        start_of_week1 == jan4 - Weekday(jan4)
    IN start_of_week1 + 7 * (week - 1)

\* The seven days from a Monday on, formatted.
WeekDates(monday) == [i \in 1..7 |-> Strftime(monday + (i - 1))]

PartsToDates(parts) ==
    IF Len(parts) # 2 THEN <<>>
    ELSE WeekDates(WeekMonday(ParseInt(parts[1]), ParseInt(parts[2])))

GetDatesForWeek(week_id) == PartsToDates(SplitDash(week_id))

\* The identifiers the SQL clause built for week_id accepts:
\* "week_id IN (...)" for a week, "week_id = ?" otherwise.
BuildWeekIdClause(week_id) ==
    IF IsWeekFormat(week_id)
    THEN LET dates == GetDatesForWeek(week_id)
         IN {week_id} \cup {dates[i] : i \in DOMAIN dates}
    ELSE {week_id}

\* ---------------------------------------------------------------- rows

Status_NEW == "NEW"
Status_PDF_OK == "PDF_OK"
Status_NBLM_OK == "NBLM_OK"
Status_VIDEO_OK == "VIDEO_OK"
Status_ERROR == "ERROR"

Statuses == {Status_NEW, Status_PDF_OK, Status_NBLM_OK, Status_VIDEO_OK, Status_ERROR}

\* The optional parameters of upsert_paper, which are also columns.
TextFields ==
    {"title", "hf_url", "pdf_url", "pdf_path", "pdf_sha256",
     "notebooklm_note_name", "video_path", "slides_path", "summary"}

OptFields == TextFields \cup {"status", "last_error"}

\* A call of upsert_paper that supplies no optional parameter.
NoArgs == [f \in OptFields |-> None]

\* NewRow with the status parameter dropped from the INSERT's values.
NewRow_StatusDropped(paper_id, week_id, args, t) ==
    [paper_id |-> paper_id, week_id |-> week_id, title |-> args.title,
     hf_url |-> args.hf_url, pdf_url |-> args.pdf_url, pdf_path |-> args.pdf_path,
     pdf_sha256 |-> args.pdf_sha256,
     notebooklm_note_name |-> args.notebooklm_note_name,
     video_path |-> args.video_path, slides_path |-> args.slides_path,
     summary |-> args.summary, status |-> "NEW", retry_count |-> 0,
     last_error |-> args.last_error, updated_at |-> t]

\* The row the INSERT of upsert_paper writes.
NewRow(paper_id, week_id, args, t) ==
    [paper_id |-> paper_id,
     week_id |-> week_id,
     title |-> args.title,
     hf_url |-> args.hf_url,
     pdf_url |-> args.pdf_url,
     pdf_path |-> args.pdf_path,
     pdf_sha256 |-> args.pdf_sha256,
     notebooklm_note_name |-> args.notebooklm_note_name,
     video_path |-> args.video_path,
     slides_path |-> args.slides_path,
     summary |-> args.summary,
     status |-> IF args.status \in {None, ""} THEN Status_NEW ELSE args.status,
     retry_count |-> 0,
     last_error |-> args.last_error,
     updated_at |-> t]

\* UpsertedRow with retry_count reset by the UPDATE.
UpsertedRow_ResetsRetry(row, args, t) ==
    [f \in DOMAIN row |->
        IF f \in OptFields /\ args[f] # None THEN args[f]
        ELSE IF f = "updated_at" THEN t
        ELSE IF f = "retry_count" THEN 0
        ELSE row[f]]

\* UpsertedRow with "if value:" in place of "if value is not None".
UpsertedRow_SkipsEmpty(row, args, t) ==
    [f \in DOMAIN row |->
        IF f \in OptFields /\ args[f] \notin {None, ""} THEN args[f]
        ELSE IF f = "updated_at" THEN t
        ELSE row[f]]

\* The row after the UPDATE of upsert_paper: one "col = ?" per parameter
\* that is not None, and updated_at.
UpsertedRow(row, args, t) ==
    [f \in DOMAIN row |->
        IF f \in OptFields /\ args[f] # None THEN args[f]
        ELSE IF f = "updated_at" THEN t
        ELSE row[f]]

\* StatusRow with retry_count cleared by an update that does not increment.
StatusRow_ClearsRetry(row, status, error, increment_retry, t) ==
    [row EXCEPT !.status = status,
                !.last_error = error,
                !.retry_count = IF increment_retry THEN @ + 1 ELSE 0,
                !.updated_at = t]

\* StatusRow with retry_count reset by a status other than ERROR recorded
\* without increment.
StatusRow_ResetsOnSuccess(row, status, error, increment_retry, t) ==
    [row EXCEPT !.status = status,
                !.last_error = error,
                !.retry_count = IF increment_retry THEN @ + 1
                                ELSE IF status # "ERROR" THEN 0 ELSE @,
                !.updated_at = t]

\* StatusRow with last_error written only when an error is given.
StatusRow_KeepsError(row, status, error, increment_retry, t) ==
    [row EXCEPT !.status = status,
                !.last_error = IF error = None THEN @ ELSE error,
                !.retry_count = IF increment_retry THEN @ + 1 ELSE @,
                !.updated_at = t]

\* The row after the UPDATE of update_status.
StatusRow(row, status, error, increment_retry, t) ==
    [row EXCEPT !.status = status,
                !.last_error = error,
                !.retry_count = IF increment_retry THEN @ + 1 ELSE @,
                !.updated_at = t]

\* --------------------------------------------------------------- store

\* SELECT * FROM papers WHERE paper_id = ?, fetchone(): no row, or one.
GetPaper(table, paper_id) ==
    LET rows == {r \in table : r.paper_id = paper_id}
    IN IF rows = {} THEN {} ELSE {CHOOSE r \in rows : TRUE}

\* get_connection without conn.rollback(): what the unit wrote stays.
GetConnection_NoRollback(table, unit, commit_fails) ==
    [raised |-> unit.raised \/ commit_fails, table |-> unit.table]

\* with get_connection() as conn: the unit ran on `table` and left
\* [raised, table]; conn.commit() follows when it did not raise, and any
\* exception, of the unit or of the commit, is answered by conn.rollback()
\* and raised again.
GetConnection(table, unit, commit_fails) ==
    IF unit.raised \/ commit_fails
    THEN [raised |-> TRUE, table |-> table]
    ELSE [raised |-> FALSE, table |-> unit.table]

\* SqlInsert as INSERT OR REPLACE: the new row takes the place of the row
\* with its identifier.
SqlInsert_Replaces(table, row) ==
    [raised |-> FALSE,
     table |-> {r \in table : r.paper_id # row.paper_id} \cup {row}]

\* INSERT INTO papers: paper_id is the PRIMARY KEY, so a second row for
\* an identifier raises IntegrityError and the connection rolls back.
SqlInsert(table, row) ==
    IF \E r \in table : r.paper_id = row.paper_id
    THEN [raised |-> TRUE, table |-> table]
    ELSE [raised |-> FALSE, table |-> table \cup {row}]

\* The write of upsert_paper when get_paper returned `existing` some time
\* before: the UPDATE when it returned a paper, the INSERT when it
\* returned None, on the table as it is at the time of the write.
UpsertWrite(table, existing, paper_id, week_id, args, t) ==
    IF existing # {}
    THEN [raised |-> FALSE,
          table |-> {IF r.paper_id = paper_id THEN UpsertedRow(r, args, t)
                     ELSE r : r \in table}]
    ELSE SqlInsert(table, NewRow(paper_id, week_id, args, t))

\* UpsertTable without the lookup and without the key: always a new row.
UpsertTable_NoKey(table, paper_id, week_id, args, t) ==
    [raised |-> FALSE, table |-> table \cup {NewRow(paper_id, week_id, args, t)}]

\* UpsertTable with week_id among the columns of the UPDATE.
UpsertTable_MovesWeek(table, paper_id, week_id, args, t) ==
    IF GetPaper(table, paper_id) # {}
    THEN [raised |-> FALSE,
          table |-> {IF r.paper_id = paper_id
                     THEN [UpsertedRow(r, args, t) EXCEPT !.week_id = week_id]
                     ELSE r : r \in table}]
    ELSE SqlInsert(table, NewRow(paper_id, week_id, args, t))

\* The table and the outcome of upsert_paper(paper_id, week_id, **args)
\* called at time t.
UpsertTable(table, paper_id, week_id, args, t) ==
    LET existing == GetPaper(table, paper_id)
    IN IF existing # {}
       THEN [raised |-> FALSE,
             table |-> {IF r.paper_id = paper_id THEN UpsertedRow(r, args, t)
                        ELSE r : r \in table}]
       ELSE SqlInsert(table, NewRow(paper_id, week_id, args, t))

\* UpdateStatusTable without the WHERE clause: every row is updated.
UpdateStatusTable_AllRows(table, paper_id, status, error, increment_retry, t) ==
    {StatusRow(r, status, error, increment_retry, t) : r \in table}

\* UpdateStatusTable creating the row when there is none.
UpdateStatusTable_InsertsMissing(table, paper_id, status, error, increment_retry, t) ==
    IF \A r \in table : r.paper_id # paper_id
    THEN table \cup {StatusRow(NewRow(paper_id, <<>>, NoArgs, t), status, error,
                               increment_retry, t)}
    ELSE {IF r.paper_id = paper_id
          THEN StatusRow(r, status, error, increment_retry, t)
          ELSE r : r \in table}

\* UpdateStatusTable deleting the row whose retry_count reaches the
\* default bound of get_papers_for_processing.
UpdateStatusTable_DropsExhausted(table, paper_id, status, error, increment_retry, t) ==
    {r \in {IF o.paper_id = paper_id
            THEN StatusRow(o, status, error, increment_retry, t)
            ELSE o : o \in table} :
        r.paper_id = paper_id => r.retry_count < 3}

\* The table after update_status(paper_id, status, error, increment_retry)
\* called at time t.
UpdateStatusTable(table, paper_id, status, error, increment_retry, t) ==
    {IF r.paper_id = paper_id
     THEN StatusRow(r, status, error, increment_retry, t)
     ELSE r : r \in table}

\* -------------------------------------------------------------- queries

status_order == <<Status_NEW, Status_PDF_OK, Status_NBLM_OK, Status_VIDEO_OK>>

\* OrderByPaperId with ORDER BY paper_id DESC.
RECURSIVE OrderByPaperId_Descending(_)
OrderByPaperId_Descending(rows) ==
    IF rows = {} THEN <<>>
    ELSE LET first == CHOOSE r \in rows :
                          \A o \in rows : ~TextLess(r.paper_id, o.paper_id)
         IN <<first>> \o OrderByPaperId_Descending(rows \ {first})

\* ORDER BY paper_id: the rows as a sequence, smallest identifier first.
RECURSIVE OrderByPaperId(_)
OrderByPaperId(rows) ==
    IF rows = {} THEN <<>>
    ELSE LET first == CHOOSE r \in rows :
                          \A o \in rows : ~TextLess(o.paper_id, r.paper_id)
         IN <<first>> \o OrderByPaperId(rows \ {first})

\* LIMIT ?, added only when limit is truthy; a limit of None and a limit
\* of 0 are both written 0 here.
ApplyLimit(rows, limit) ==
    IF limit = 0 THEN rows
    ELSE SubSeq(rows, 1, IF limit < Len(rows) THEN limit ELSE Len(rows))

\* WHERE week_id IN (...) AND status IN (...) AND retry_count < ?
ProcessingRows(table, week_ids, needed_statuses, max_retries) ==
    {r \in table :
        /\ r.week_id \in week_ids
        /\ \E i \in 1..Len(needed_statuses) : needed_statuses[i] = r.status
        /\ r.retry_count < max_retries}

\* get_papers_for_processing(week_id, target_status, max_retries, limit)
GetPapersForProcessing(table, week_id, target_status, max_retries, limit) ==
    IF \A i \in 1..Len(status_order) : status_order[i] # target_status
    THEN <<>>
    ELSE LET target_idx == (CHOOSE i \in 1..Len(status_order) :
                                status_order[i] = target_status) - 1
             needed_statuses == SubSeq(status_order, 1, target_idx)
         IN ApplyLimit(OrderByPaperId(ProcessingRows(table, BuildWeekIdClause(week_id),
                                                     needed_statuses, max_retries)),
                       limit)

\* ORDER BY updated_at DESC: every order of the rows that SQLite may
\* return, rows with the same updated_at in either order.
OrderByUpdatedDesc(rows) ==
    {s \in [1..Cardinality(rows) -> rows] :
        /\ \A i, j \in 1..Cardinality(rows) : i # j => s[i] # s[j]
        /\ \A i, j \in 1..Cardinality(rows) :
               i < j => s[i].updated_at >= s[j].updated_at}

\* select; a filter that is None or empty is left out of the query (a
\* week_id of None is written <<>> here, like the empty string).
SelectRows(table, no_week, week_ids, status) ==
    {r \in table :
        /\ (no_week \/ r.week_id \in week_ids)
        /\ (status \in {None, ""} \/ r.status = status)}

SelectPapers(table, week_id, status) ==
    SelectRows(table, week_id = <<>>,
               IF week_id = <<>> THEN {} ELSE BuildWeekIdClause(week_id), status)

\* CountPapers without the status filter.
CountPapers_IgnoresStatus(table, week_id, status) ==
    Cardinality(SelectPapers(table, week_id, None))

CountPapers(table, week_id, status) == Cardinality(SelectPapers(table, week_id, status))

\* ------------------------------------------------------------- scraper

\* parse_week_id: the year and the week of "YYYY-WW".
ParseWeekId(week_id) ==
    [year |-> ParseInt(SplitDash(week_id)[1]), week |-> ParseInt(SplitDash(week_id)[2])]

\* get_dates_for_week of the scraper: the dates of the day pages, the
\* page of day d of a run being the page of the d-th date.
HfGetDatesForWeek(week_id) ==
    WeekDates(WeekMonday(ParseWeekId(week_id).year, ParseWeekId(week_id).week))

\* f"Paper {paper_id}", f"{HF_PAPERS_URL}/{paper_id}" and
\* ARXIV_PDF_URL.format(paper_id=paper_id), for the identifiers of the model.
DefaultTitle(paper_id) ==
    IF Len(paper_id) = 9 THEN "Paper 2601.0325" ELSE "Paper 2601.03252"

HfUrl(paper_id) ==
    IF Len(paper_id) = 9 THEN "https://huggingface.co/papers/2601.0325"
    ELSE "https://huggingface.co/papers/2601.03252"

PdfUrl(paper_id) ==
    IF Len(paper_id) = 9 THEN "https://arxiv.org/pdf/2601.0325.pdf"
    ELSE "https://arxiv.org/pdf/2601.03252.pdf"

\* len(title) < 5, for the link texts of the model.
ShortText(text) == text \in {"", "abc"}

\* The title taken for a link: its text, or when that is short the
\* heading of its parent element if there is one (None: there is none),
\* or "Paper <id>" when what was found is empty.
LinkTitle(link) ==
    LET found == IF ShortText(link.text) /\ link.heading # None
                 THEN link.heading ELSE link.text
    IN IF found = "" THEN DefaultTitle(link.paper_id) ELSE found

PaperDict(link) ==
    [paper_id |-> link.paper_id,
     title |-> LinkTitle(link),
     hf_url |-> HfUrl(link.paper_id),
     pdf_url |-> PdfUrl(link.paper_id)]

\* The loop over the links of a page: a paper per identifier, the first
\* link of each, until max_papers are collected (0: no maximum).
RECURSIVE ScanLinks(_, _, _)
ScanLinks(found, links, max_papers) ==
    IF links = <<>> THEN found
    ELSE IF \E i \in DOMAIN found : found[i].paper_id = Head(links).paper_id
    THEN ScanLinks(found, Tail(links), max_papers)
    ELSE IF max_papers # 0 /\ Len(found) + 1 >= max_papers
    THEN Append(found, PaperDict(Head(links)))
    ELSE ScanLinks(Append(found, PaperDict(Head(links))), Tail(links), max_papers)

\* fetch_papers_for_week_url and fetch_papers_for_date: the papers of a
\* page, or [] when the request failed.
FetchPapersForPage(page, max_papers) ==
    IF ~page.ok THEN <<>> ELSE ScanLinks(<<>>, page.links, max_papers)

\* The optional parameters fetch_weekly_papers passes to upsert_paper.
ScrapedArgs(paper) ==
    [NoArgs EXCEPT !.title = paper.title,
                   !.hf_url = paper.hf_url,
                   !.pdf_url = paper.pdf_url]

\* StorePapers without the get_paper check: every paper is upserted.
RECURSIVE StorePapers_NoExistingCheck(_, _, _, _, _)
StorePapers_NoExistingCheck(st, found, week_id, max_papers, t) ==
    IF found = <<>> THEN st
    ELSE LET paper == Head(found)
         IN IF paper.paper_id \in st.seen_ids
            THEN StorePapers_NoExistingCheck(st, Tail(found), week_id, max_papers, t)
            ELSE LET stored ==
                         [st EXCEPT
                            !.seen_ids = @ \cup {paper.paper_id},
                            !.all_papers = Append(@, paper),
                            !.table = UpsertTable(st.table, paper.paper_id, week_id,
                                                  ScrapedArgs(paper), t).table]
                 IN IF max_papers # 0 /\ Len(stored.all_papers) >= max_papers
                    THEN stored
                    ELSE StorePapers_NoExistingCheck(stored, Tail(found), week_id,
                                                     max_papers, t)

\* StorePapers without seen_ids: a paper met again is handled again.
RECURSIVE StorePapers_NoSeenCheck(_, _, _, _, _)
StorePapers_NoSeenCheck(st, found, week_id, max_papers, t) ==
    IF found = <<>> THEN st
    ELSE LET paper == Head(found)
         IN IF GetPaper(st.table, paper.paper_id) # {}
            THEN StorePapers_NoSeenCheck([st EXCEPT !.all_papers = Append(@, paper)],
                                         Tail(found), week_id, max_papers, t)
            ELSE LET stored ==
                         [st EXCEPT
                            !.all_papers = Append(@, paper),
                            !.table = UpsertTable(st.table, paper.paper_id, week_id,
                                                  ScrapedArgs(paper), t).table]
                 IN IF max_papers # 0 /\ Len(stored.all_papers) >= max_papers
                    THEN stored
                    ELSE StorePapers_NoSeenCheck(stored, Tail(found), week_id,
                                                 max_papers, t)

\* The loop of fetch_weekly_papers over the papers of one page.  st holds
\* the table, all_papers, seen_ids and the pages asked for so far.
RECURSIVE StorePapers(_, _, _, _, _)
StorePapers(st, found, week_id, max_papers, t) ==
    IF found = <<>> THEN st
    ELSE LET paper == Head(found)
         IN IF paper.paper_id \in st.seen_ids
            THEN StorePapers(st, Tail(found), week_id, max_papers, t)
            ELSE IF GetPaper(st.table, paper.paper_id) # {}
            THEN StorePapers([st EXCEPT !.seen_ids = @ \cup {paper.paper_id},
                                        !.all_papers = Append(@, paper)],
                             Tail(found), week_id, max_papers, t)
            ELSE LET stored ==
                         [st EXCEPT
                            !.seen_ids = @ \cup {paper.paper_id},
                            !.all_papers = Append(@, paper),
                            !.table = UpsertTable(st.table, paper.paper_id, week_id,
                                                  ScrapedArgs(paper), t).table]
                 IN IF max_papers # 0 /\ Len(stored.all_papers) >= max_papers
                    THEN stored
                    ELSE StorePapers(stored, Tail(found), week_id, max_papers, t)

\* StoreDays losing what was collected when the page of a day fails.
RECURSIVE StoreDays_FailureDiscards(_, _, _, _, _, _)
StoreDays_FailureDiscards(st, day, day_pages, week_id, max_papers, t) ==
    IF day > Len(day_pages) THEN st
    ELSE IF max_papers # 0 /\ max_papers - Len(st.all_papers) <= 0 THEN st
    ELSE LET remaining == IF max_papers # 0 THEN max_papers - Len(st.all_papers) ELSE 0
             fetched == [st EXCEPT !.fetched = Append(@, day),
                                   !.all_papers = IF day_pages[day].ok THEN @ ELSE <<>>]
         IN StoreDays_FailureDiscards(
                StorePapers(fetched, FetchPapersForPage(day_pages[day], remaining),
                            week_id, max_papers, t),
                day + 1, day_pages, week_id, max_papers, t)

\* The fallback of fetch_weekly_papers: the pages of the days from `day`
\* on, Monday being day 1.
RECURSIVE StoreDays(_, _, _, _, _, _)
StoreDays(st, day, day_pages, week_id, max_papers, t) ==
    IF day > Len(day_pages) THEN st
    ELSE IF max_papers # 0 /\ max_papers - Len(st.all_papers) <= 0 THEN st
    ELSE LET remaining == IF max_papers # 0 THEN max_papers - Len(st.all_papers) ELSE 0
             fetched == [st EXCEPT !.fetched = Append(@, day)]
         IN StoreDays(StorePapers(fetched, FetchPapersForPage(day_pages[day], remaining),
                                  week_id, max_papers, t),
                      day + 1, day_pages, week_id, max_papers, t)

\* FetchWeekly going through the day pages after the week page as well.
FetchWeekly_AlwaysDays(table, week_id, max_papers, week_page, day_pages, t) ==
    LET start == [table |-> table, all_papers |-> <<>>, seen_ids |-> {},
                  fetched |-> <<0>>]
    IN StoreDays(StorePapers(start, FetchPapersForPage(week_page, max_papers),
                             week_id, max_papers, t),
                 1, day_pages, week_id, max_papers, t)

\* fetch_weekly_papers(week_id, max_papers) when the week page and the
\* day pages answer as given; fetched lists the pages asked for, 0 being
\* the week page.
FetchWeekly(table, week_id, max_papers, week_page, day_pages, t) ==
    LET start == [table |-> table, all_papers |-> <<>>, seen_ids |-> {},
                  fetched |-> <<0>>]
        papers_from_week == FetchPapersForPage(week_page, max_papers)
    IN IF papers_from_week # <<>>
       THEN StorePapers(start, papers_from_week, week_id, max_papers, t)
       ELSE StoreDays(start, 1, day_pages, week_id, max_papers, t)

\* -------------------------------------------------------------- digest

\* A value Python takes as true: not None and not the empty string.
Truthy(x) == x \notin {None, ""}

\* DigestFilter asking for VIDEO_OK whatever include_all is.
DigestFilter_AlwaysVideoOk(include_all) == Status_VIDEO_OK

\* The status list_papers is asked for by generate_digest.
DigestFilter(include_all) == IF include_all THEN None ELSE Status_VIDEO_OK

\* An entry of "papers" in the JSON document.
PaperData(paper) ==
    [paper_id |-> paper.paper_id,
     title |-> paper.title,
     hf_url |-> paper.hf_url,
     pdf_url |-> paper.pdf_url,
     pdf_path |-> paper.pdf_path,
     video_path |-> paper.video_path,
     status |-> paper.status]

\* "stats" of the JSON document: five calls of count_papers.
DigestStats(table, week_id) ==
    [total |-> CountPapers(table, week_id, None),
     video_ok |-> CountPapers(table, week_id, Status_VIDEO_OK),
     pdf_ok |-> CountPapers(table, week_id, Status_PDF_OK),
     new |-> CountPapers(table, week_id, Status_NEW),
     error |-> CountPapers(table, week_id, Status_ERROR)]

\* digest_json, generated at time t.
DigestJson(week_id, parsed, listed, stats, t) ==
    [week_id |-> week_id,
     year |-> parsed.year,
     week |-> parsed.week,
     generated_at |-> t,
     total_papers |-> Len(listed),
     papers |-> [i \in DOMAIN listed |-> PaperData(listed[i])],
     stats |-> stats]

\* A line of the Markdown document: its fixed text and the values
\* formatted into it.
Line(text, value) == [text |-> text, value |-> value]

Blank == Line("", <<>>)

\* The lines generate_markdown writes for the i-th paper.
PaperLines(i, paper) ==
    LET links == (IF Truthy(paper.hf_url) THEN <<<<"HuggingFace", paper.hf_url>>>> ELSE <<>>)
                 \o (IF Truthy(paper.pdf_url) THEN <<<<"arXiv PDF", paper.pdf_url>>>>
                     ELSE <<>>)
        files == (IF Truthy(paper.pdf_path) THEN <<Line("- PDF: ", <<paper.pdf_path>>)>>
                  ELSE <<>>)
                 \o (IF Truthy(paper.video_path)
                     THEN <<Line("- Video: ", <<paper.video_path>>)>> ELSE <<>>)
    IN <<Line("### ", <<i, IF Truthy(paper.title) THEN paper.title ELSE "Untitled">>),
         Blank,
         Line("**Paper ID:** ", <<paper.paper_id>>),
         Blank>>
       \o (IF links # <<>> THEN <<Line("**Links:** ", links), Blank>> ELSE <<>>)
       \o (IF files # <<>> THEN <<Line("**Local files:**", <<>>)>> \o files \o <<Blank>>
           ELSE <<>>)
       \o <<Line("**Status:** ", <<paper.status>>), Blank, Line("---", <<>>), Blank>>

RECURSIVE AllPaperLines(_, _)
AllPaperLines(i, listed) ==
    IF i > Len(listed) THEN <<>>
    ELSE PaperLines(i, listed[i]) \o AllPaperLines(i + 1, listed)

\* generate_markdown(week_id, year, week, papers, stats), at time t
GenerateMarkdown(week_id, year, week, listed, stats, t) ==
    <<Line("# Weekly AI Paper Digest - ", <<week_id>>),
      Blank,
      Line("**Year:** | **Week:** ", <<year, week>>),
      Line("**Generated:** ", <<t>>),
      Blank,
      Line("## Summary", <<>>),
      Blank,
      Line("- Total papers: ", <<stats.total>>),
      Line("- Videos generated: ", <<stats.video_ok>>),
      Line("- PDFs downloaded: ", <<stats.pdf_ok>>),
      Line("- Pending: ", <<stats.new>>),
      Line("- Errors: ", <<stats.error>>),
      Blank,
      Line("---", <<>>),
      Blank,
      Line("## Papers", <<>>),
      Blank>>
    \o (IF listed = <<>>
        THEN <<Line("*No papers with completed videos for this week.*", <<>>)>>
        ELSE AllPaperLines(1, listed))
    \o <<Blank,
         Line("## About", <<>>),
         Blank,
         Line("This digest was automatically generated by Auto Paper Digest.", <<>>),
         Line("Videos are created using NotebookLM's Audio Overview feature.", <<>>)>>

\* ----------------------------------------------------------- publisher

\* {"weeks": {}, "last_updated": None}: what load_metadata returns when
\* the download or the parse raises, and the index of a new dataset.
EmptyIndex == [weeks |-> [w \in {} |-> <<>>], last_updated |-> None]

\* load_metadata: the index of the dataset, or the empty index when
\* hf_hub_download or json.load raised.
LoadMetadata(remote, load_ok) == IF load_ok THEN remote ELSE EmptyIndex

\* metadata["weeks"] with an empty list under week_id when it has no
\* such key.
WithWeek(weeks, week_id) ==
    [w \in DOMAIN weeks \cup {week_id} |-> IF w \in DOMAIN weeks THEN weeks[w] ELSE <<>>]

\* paper_data of a paper whose video was uploaded at time t; a URL is
\* written as the remote path it is built from, slides_url as the set of
\* its values (empty for None).
PaperEntry(paper, week_id, slides_ok, t) ==
    [paper_id |-> paper.paper_id,
     title |-> IF Truthy(paper.title) THEN paper.title ELSE DefaultTitle(paper.paper_id),
     pdf_url |-> PdfUrl(paper.paper_id),
     hf_url |-> HfUrl(paper.paper_id),
     video_url |-> <<week_id, paper.video_path>>,
     video_filename |-> paper.video_path,
     slides_url |-> IF Truthy(paper.slides_path) /\ slides_ok
                    THEN {<<week_id, paper.slides_path>>} ELSE {},
     published_at |-> t]

\* The list of a week with paper_data put in the place of the entry of
\* the same paper_id, or at the end when there is none.
PutEntry(entries, entry) ==
    IF \E i \in DOMAIN entries : entries[i].paper_id = entry.paper_id
    THEN LET i == CHOOSE k \in DOMAIN entries :
                      /\ entries[k].paper_id = entry.paper_id
                      /\ \A j \in 1..(k - 1) : entries[j].paper_id # entry.paper_id
         IN [entries EXCEPT ![i] = entry]
    ELSE Append(entries, entry)

\* The loop of publish_week over the papers with a video.  st holds the
\* list of the week, success and failure; `unavailable` are the papers
\* whose video file is missing or whose upload raises.
RECURSIVE PublishPapers(_, _, _, _, _, _, _, _)
PublishPapers(st, listed, week_id, force, existing_ids, unavailable, slides_ok, t) ==
    IF listed = <<>> THEN st
    ELSE LET paper == Head(listed)
             next == IF paper.paper_id \in existing_ids /\ ~force
                     THEN [st EXCEPT !.success = @ + 1]
                     ELSE IF ~Truthy(paper.video_path) \/ paper.paper_id \in unavailable
                     THEN [st EXCEPT !.failure = @ + 1]
                     ELSE [st EXCEPT
                             !.entries = PutEntry(@, PaperEntry(paper, week_id, slides_ok, t)),
                             !.success = @ + 1]
         IN PublishPapers(next, Tail(listed), week_id, force, existing_ids, unavailable,
                          slides_ok, t)

\* publish_week(week_id, force) on the papers list_papers returned: the
\* index it uploads, whether it uploads one, and the counts it returns.
PublishOutcome(remote, listed, week_id, force, load_ok, unavailable, slides_ok, t) ==
    IF listed = <<>>
    THEN [saves |-> FALSE, index |-> remote, result |-> <<0, 0>>]
    ELSE LET weeks == WithWeek(LoadMetadata(remote, load_ok).weeks, week_id)
             existing_ids == {weeks[week_id][i].paper_id : i \in DOMAIN weeks[week_id]}
             out == PublishPapers([entries |-> weeks[week_id], success |-> 0, failure |-> 0],
                                  listed, week_id, force, existing_ids, unavailable,
                                  slides_ok, t)
         IN [saves |-> out.success > 0,
             index |-> [weeks |-> [weeks EXCEPT ![week_id] = out.entries],
                        last_updated |-> t],
             result |-> <<out.success, out.failure>>]

\* -------------------------------------------------------------- bounds

\* The clock stops at MaxNow.
MaxNow == 1

\* update_status(increment_retry=True) is not called on a paper whose
\* retry_count has reached RetryCap.
RetryCap == 4

\* max_retries of get_papers_for_processing when the caller passes none.
DefaultMaxRetries == 3

\* "2601.0325", "2601.03252": the first is a prefix of the second.
PaperA == <<"2", "6", "0", "1", ".", "0", "3", "2", "5">>
PaperB == <<"2", "6", "0", "1", ".", "0", "3", "2", "5", "2">>

PaperIds == {PaperA, PaperB}

\* "2026-03" and "2026-01-12", the Monday of that week.
Week03 == <<"2", "0", "2", "6", "-", "0", "3">>
Day0112 == <<"2", "0", "2", "6", "-", "0", "1", "-", "1", "2">>

Weeks == {Week03, Day0112}

Errors == {None, "boom"}

\* The calls of upsert_paper the lifecycle makes: nothing supplied, a
\* status (the empty string too), or an error text.
LifecycleArgs ==
    {NoArgs}
    \cup {[NoArgs EXCEPT !.status = s] : s \in Statuses \cup {""}}
    \cup {[NoArgs EXCEPT !.last_error = "boom"]}

\* In the specification of the processing query, update_status
\* (increment_retry=True) is not called on a paper whose retry_count has
\* reached SmallRetryCap.
SmallRetryCap == 1

\* At most MaxFilled of a row's text columns are populated.
MaxFilled == 2

\* The value a call passes for an optional parameter.
NewValue(f) ==
    CASE f = "title" -> "A title"
      [] f = "hf_url" -> "https://hf/p"
      [] f = "pdf_url" -> "https://arxiv/p.pdf"
      [] f = "pdf_path" -> "/pdf/p.pdf"
      [] f = "pdf_sha256" -> "c0ffee"
      [] f = "notebooklm_note_name" -> "notes/p"
      [] f = "video_path" -> "/video/p.mp4"
      [] f = "slides_path" -> "/slides/p.pdf"
      [] f = "summary" -> "A summary"
      [] f = "status" -> "PDF_OK"
      [] f = "last_error" -> "boom"

\* The calls of upsert_paper that supply a subset of the optional
\* parameters: none, any one, an empty title, a title after another, and
\* the pair a download stage passes.
FrameArgs ==
    {NoArgs}
    \cup {[NoArgs EXCEPT ![f] = NewValue(f)] : f \in OptFields}
    \cup {[NoArgs EXCEPT !.title = ""], [NoArgs EXCEPT !.title = "Another title"],
          [NoArgs EXCEPT !.pdf_path = "/pdf/p.pdf", !.status = "PDF_OK"]}

\* Period identifiers around the turn of 2025/2026 and around week 3 of
\* 2026: 2025 has 52 ISO weeks, 2026 has 53.
P_2026_03 == Week03
P_2026_01 == <<"2", "0", "2", "6", "-", "0", "1">>
P_2026_00 == <<"2", "0", "2", "6", "-", "0", "0">>
P_2025_53 == <<"2", "0", "2", "5", "-", "5", "3">>
P_2026_53 == <<"2", "0", "2", "6", "-", "5", "3">>
D_2025_12_28 == <<"2", "0", "2", "5", "-", "1", "2", "-", "2", "8">>
D_2025_12_29 == <<"2", "0", "2", "5", "-", "1", "2", "-", "2", "9">>
D_2026_01_04 == <<"2", "0", "2", "6", "-", "0", "1", "-", "0", "4">>
D_2026_01_05 == <<"2", "0", "2", "6", "-", "0", "1", "-", "0", "5">>
D_2026_01_11 == <<"2", "0", "2", "6", "-", "0", "1", "-", "1", "1">>
D_2026_01_18 == <<"2", "0", "2", "6", "-", "0", "1", "-", "1", "8">>
D_2026_01_19 == <<"2", "0", "2", "6", "-", "0", "1", "-", "1", "9">>
D_2027_01_03 == <<"2", "0", "2", "7", "-", "0", "1", "-", "0", "3">>

\* The periods papers are stored under.
StoredPeriods ==
    {P_2026_03, P_2026_01, D_2025_12_28, D_2025_12_29, D_2026_01_04,
     D_2026_01_05, D_2026_01_11, Day0112, D_2026_01_18, D_2026_01_19,
     D_2027_01_03}

\* The periods the queries ask for.
QueryPeriods ==
    {P_2026_03, P_2026_01, P_2026_00, P_2025_53, P_2026_53, Day0112, D_2026_01_04}

\* Links of a listing page: a paper identifier, the text of the link and
\* the heading of its parent element (None: no parent, or no heading in it).
LinkA == [paper_id |-> PaperA, text |-> "A title", heading |-> None]
LinkA2 == [paper_id |-> PaperA, text |-> "", heading |-> "Heading title"]
LinkB == [paper_id |-> PaperB, text |-> "", heading |-> None]
LinkB2 == [paper_id |-> PaperB, text |-> "abc", heading |-> None]

\* A page that answered with these links, and a request that failed.
Page(links) == [ok |-> TRUE, links |-> links]
Failed == [ok |-> FALSE, links |-> <<>>]

\* Week pages that list papers, and week pages that yield none.
FullWeekPages == {Page(<<LinkB2, LinkA, LinkB>>), Page(<<LinkA2, LinkB>>)}

EmptyWeekPages == {Failed, Page(<<>>)}

\* The pages of the seven days, Monday first.
QuietDays == [d \in 1..7 |-> Page(<<>>)]

DayPageSets ==
    {[QuietDays EXCEPT ![1] = Failed, ![2] = Page(<<LinkA, LinkB>>), ![3] = Failed,
                       ![7] = Page(<<LinkB2, LinkA2>>)],
     [QuietDays EXCEPT ![1] = Page(<<LinkB>>), ![4] = Failed, ![7] = Page(<<LinkA2>>)],
     [d \in 1..7 |-> Failed]}

\* max_papers: 0 for None.
MaxPapersInputs == {0, 1, 2}

\* The sets of papers whose video cannot be uploaded.
UnavailableSets == {{}, {PaperA}}

\* What a download stage passes to upsert_paper.
DownloadArgs == [NoArgs EXCEPT !.pdf_path = "/pdf/p.pdf", !.pdf_sha256 = "c0ffee"]

\* The processes that may call upsert_paper at the same time.
Procs == {1, 2}

\* A process that is in no call.
Idle ==
    [pc |-> "idle", paper_id |-> <<>>, week_id |-> <<>>, args |-> NoArgs,
     existing |-> {}, t |-> 0, pending |-> {}]

\* What the two racing calls supply.
RaceArgs ==
    {[NoArgs EXCEPT !.title = "A title"],
     [NoArgs EXCEPT !.title = "Another title", !.status = Status_PDF_OK]}

\* -------------------------------------------------------------- actions

Init ==
    /\ papers = {}
    /\ now = 0
    /\ last = [op |-> "init"]
    /\ failed_attempts = [p \in PaperIds |-> 0]
    /\ metadata = EmptyIndex
    /\ inflight = [p \in Procs |-> Idle]

\* Time passes between calls.
Tick ==
    /\ now < MaxNow
    /\ now' = now + 1
    /\ UNCHANGED <<papers, last, failed_attempts, metadata, inflight>>

\* upsert_paper(paper_id, week_id, **args)
UpsertPaper(paper_id, week_id, args) ==
    LET out == UpsertTable(papers, paper_id, week_id, args, now)
    IN /\ papers' = out.table
       /\ last' = [op |-> "upsert_paper",
                   paper_id |-> paper_id,
                   week_id |-> week_id,
                   args |-> args,
                   existed |-> GetPaper(papers, paper_id) # {},
                   raised |-> out.raised,
                   result |-> GetPaper(out.table, paper_id)]
       /\ UNCHANGED <<now, failed_attempts, metadata, inflight>>

\* update_status(paper_id, status, error, increment_retry)
UpdateStatus(paper_id, status, error, increment_retry) ==
    LET found == {r \in papers : r.paper_id = paper_id}
        table == UpdateStatusTable(papers, paper_id, status, error,
                                   increment_retry, now)
    IN /\ increment_retry => \A r \in found : r.retry_count < RetryCap
       /\ papers' = table
       /\ last' = [op |-> "update_status",
                   paper_id |-> paper_id,
                   status |-> status,
                   error |-> error,
                   increment_retry |-> increment_retry,
                   existed |-> found # {},
                   result |-> IF found = {} THEN {} ELSE GetPaper(table, paper_id)]
       /\ failed_attempts' =
              IF increment_retry /\ found # {}
              THEN [failed_attempts EXCEPT ![paper_id] = @ + 1]
              ELSE failed_attempts
       /\ UNCHANGED <<now, metadata, inflight>>

\* list_papers(week_id, status, limit)
ListPapers(week_id, status, limit) ==
    /\ \E rows \in OrderByUpdatedDesc(SelectPapers(papers, week_id, status)) :
           last' = [op |-> "list_papers",
                    week_id |-> week_id,
                    status |-> status,
                    result |-> ApplyLimit(rows, limit)]
    /\ UNCHANGED <<papers, now, failed_attempts, metadata, inflight>>

\* count_papers(week_id, status)
CountPapersCall(week_id, status) ==
    /\ last' = [op |-> "count_papers",
                week_id |-> week_id,
                status |-> status,
                result |-> CountPapers(papers, week_id, status)]
    /\ UNCHANGED <<papers, now, failed_attempts, metadata, inflight>>

\* get_papers_for_processing(week_id, target_status, max_retries, limit)
GetPapersForProcessingCall(week_id, target_status, max_retries, limit) ==
    /\ last' = [op |-> "get_papers_for_processing",
                week_id |-> week_id,
                target_status |-> target_status,
                max_retries |-> max_retries,
                limit |-> limit,
                result |-> GetPapersForProcessing(papers, week_id, target_status,
                                                  max_retries, limit)]
    /\ UNCHANGED <<papers, now, failed_attempts, metadata, inflight>>

\* fetch_weekly_papers(week_id, max_papers), the pages answering as given
FetchWeeklyPapers(week_id, max_papers, week_page, day_pages) ==
    LET out == FetchWeekly(papers, week_id, max_papers, week_page, day_pages, now)
    IN /\ papers' = out.table
       /\ last' = [op |-> "fetch_weekly_papers",
                   week_id |-> week_id,
                   max_papers |-> max_papers,
                   week_page |-> week_page,
                   day_pages |-> day_pages,
                   fetched |-> out.fetched,
                   result |-> out.all_papers]
       /\ UNCHANGED <<now, failed_attempts, metadata, inflight>>

\* upsert_paper when the store may fail: fault is None, "execute" (the
\* statement raises and writes nothing) or "commit" (conn.commit() raises).
UpsertPaperUnit(paper_id, week_id, args, fault) ==
    LET unit == IF fault = "execute" THEN [raised |-> TRUE, table |-> papers]
                ELSE UpsertTable(papers, paper_id, week_id, args, now)
        out == GetConnection(papers, unit, fault = "commit")
    IN /\ papers' = out.table
       /\ last' = [op |-> "upsert_paper",
                   paper_id |-> paper_id,
                   week_id |-> week_id,
                   args |-> args,
                   fault |-> fault,
                   existed |-> GetPaper(papers, paper_id) # {},
                   raised |-> out.raised,
                   result |-> IF out.raised THEN {} ELSE GetPaper(out.table, paper_id)]
       /\ UNCHANGED <<now, failed_attempts, metadata, inflight>>

\* update_status when the store may fail
UpdateStatusUnit(paper_id, status, error, increment_retry, fault) ==
    LET found == {r \in papers : r.paper_id = paper_id}
        unit == IF fault = "execute" THEN [raised |-> TRUE, table |-> papers]
                ELSE [raised |-> FALSE,
                      table |-> UpdateStatusTable(papers, paper_id, status, error,
                                                  increment_retry, now)]
        out == GetConnection(papers, unit, fault = "commit")
    IN /\ papers' = out.table
       /\ last' = [op |-> "update_status",
                   paper_id |-> paper_id,
                   status |-> status,
                   error |-> error,
                   increment_retry |-> increment_retry,
                   fault |-> fault,
                   existed |-> found # {},
                   raised |-> out.raised,
                   result |-> IF out.raised \/ found = {} THEN {}
                              ELSE GetPaper(out.table, paper_id)]
       /\ failed_attempts' =
              IF increment_retry /\ found # {} /\ ~out.raised
              THEN [failed_attempts EXCEPT ![paper_id] = @ + 1]
              ELSE failed_attempts
       /\ UNCHANGED <<now, metadata, inflight>>

\* generate_digest(week_id, include_all): the two documents it writes
GenerateDigest(week_id, include_all) ==
    /\ \E listed \in OrderByUpdatedDesc(SelectPapers(papers, week_id,
                                                      DigestFilter(include_all))) :
           LET parsed == ParseWeekId(week_id)
               json == DigestJson(week_id, parsed, listed, DigestStats(papers, week_id), now)
           IN last' = [op |-> "generate_digest",
                       week_id |-> week_id,
                       include_all |-> include_all,
                       json |-> json,
                       md |-> GenerateMarkdown(week_id, parsed.year, parsed.week, listed,
                                               json.stats, now)]
    /\ UNCHANGED <<papers, now, failed_attempts, metadata, inflight>>

\* publish_week(week_id, force), for every way the dataset may answer:
\* the download of the index succeeding or not, a set of papers whose
\* video cannot be uploaded, the upload of slides and the upload of the
\* index succeeding or not.
PublishWeek(week_id) ==
    /\ \E listed \in OrderByUpdatedDesc(SelectPapers(papers, week_id, Status_VIDEO_OK)) :
       \E force \in BOOLEAN, load_ok \in BOOLEAN, unavailable \in UnavailableSets,
          slides_ok \in BOOLEAN, save_ok \in BOOLEAN :
           LET out == PublishOutcome(metadata, listed, week_id, force, load_ok,
                                     unavailable, slides_ok, now)
           IN /\ metadata' = IF out.saves /\ save_ok THEN out.index ELSE metadata
              /\ last' = [op |-> "publish_week",
                          week_id |-> week_id,
                          force |-> force,
                          load_ok |-> load_ok,
                          raised |-> out.saves /\ ~save_ok,
                          result |-> out.result]
    /\ UNCHANGED <<papers, now, failed_attempts, inflight>>

\* What a process reports when its call of upsert_paper ends.
UpsertEnded(p, raised, result) ==
    [op |-> "upsert_paper",
     proc |-> p,
     paper_id |-> inflight[p].paper_id,
     week_id |-> inflight[p].week_id,
     args |-> inflight[p].args,
     existed |-> inflight[p].existing # {},
     raised |-> raised,
     result |-> result]

\* The first half of upsert_paper in process p: get_paper in a connection
\* of its own, then now_iso().
BeginUpsert(p, paper_id, week_id, args) ==
    /\ inflight[p].pc = "idle"
    /\ inflight' = [inflight EXCEPT ![p] =
                       [pc |-> "looked", paper_id |-> paper_id, week_id |-> week_id,
                        args |-> args, existing |-> GetPaper(papers, paper_id),
                        t |-> now, pending |-> {}]]
    /\ UNCHANGED <<papers, now, last, failed_attempts, metadata>>

\* The statement of upsert_paper in process p, while no other process
\* holds the write lock: it raises, is rolled back and ends the call, or
\* it leaves its write pending in the transaction.
ExecuteUpsert(p) ==
    /\ inflight[p].pc = "looked"
    /\ \A q \in Procs : inflight[q].pc # "written"
    /\ LET c == inflight[p]
           unit == UpsertWrite(papers, c.existing, c.paper_id, c.week_id, c.args, c.t)
       IN IF unit.raised
          THEN /\ inflight' = [inflight EXCEPT ![p] = Idle]
               /\ last' = UpsertEnded(p, TRUE, {})
          ELSE /\ inflight' = [inflight EXCEPT ![p].pc = "written",
                                               ![p].pending = unit.table]
               /\ last' = last
    /\ UNCHANGED <<papers, now, failed_attempts, metadata>>

\* The statement of upsert_paper in process p while another process
\* holds the write lock, when SQLite gives up waiting: "database is
\* locked" is raised and the call ends.
UpsertLocked(p) ==
    /\ inflight[p].pc = "looked"
    /\ \E q \in Procs : inflight[q].pc = "written"
    /\ inflight' = [inflight EXCEPT ![p] = Idle]
    /\ last' = UpsertEnded(p, TRUE, {})
    /\ UNCHANGED <<papers, now, failed_attempts, metadata>>

\* conn.commit() of upsert_paper in process p, and the paper it returns.
CommitUpsert(p) ==
    /\ inflight[p].pc = "written"
    /\ LET out == GetConnection(papers, [raised |-> FALSE, table |-> inflight[p].pending],
                                FALSE)
       IN /\ papers' = out.table
          /\ last' = UpsertEnded(p, out.raised, GetPaper(out.table, inflight[p].paper_id))
    /\ inflight' = [inflight EXCEPT ![p] = Idle]
    /\ UNCHANGED <<now, failed_attempts, metadata>>

\* update_status(increment_retry=True) stays below the cap.
BelowCap(paper_id, increment_retry, cap) ==
    increment_retry => \A r \in papers : r.paper_id = paper_id => r.retry_count < cap

\* The life of one paper: every status, error text and retry count.
Next ==
    \/ Tick
    \/ \E w \in Weeks, a \in LifecycleArgs : UpsertPaper(PaperA, w, a)
    \/ \E s \in Statuses, e \in Errors, i \in BOOLEAN :
           BelowCap(PaperA, i, RetryCap) /\ UpdateStatus(PaperA, s, e, i)

Spec == Init /\ [][Next]_vars

\* The text columns of a paper that hold a value, after upsert_paper(args).
FilledAfter(paper_id, args) ==
    {f \in TextFields :
        \/ args[f] # None
        \/ \E r \in papers : r.paper_id = paper_id /\ r[f] # None}

\* One paper, upserted with every subset shape of FrameArgs.
NextFrame ==
    \/ Tick
    \/ \E w \in Weeks, a \in FrameArgs :
           /\ Cardinality(FilledAfter(PaperA, a)) <= MaxFilled
           /\ UpsertPaper(PaperA, w, a)

SpecFrame == Init /\ [][NextFrame]_vars

\* One paper stored under any period of StoredPeriods, a second one under
\* a week or a day of it, and the three period queries.
NextPeriod ==
    \/ \E w \in StoredPeriods : UpsertPaper(PaperA, w, NoArgs)
    \/ \E w \in {P_2026_01, Day0112} : UpsertPaper(PaperB, w, NoArgs)
    \/ \E q \in QueryPeriods : ListPapers(q, None, 0)
    \/ \E q \in QueryPeriods : CountPapersCall(q, None)
    \/ \E q \in QueryPeriods :
           GetPapersForProcessingCall(q, Status_VIDEO_OK, DefaultMaxRetries, 0)

SpecPeriod == Init /\ [][NextPeriod]_vars

\* Two papers of any status, with and without a failed attempt, one stored
\* under a week or a day of it and one under the week, and the processing
\* query for the week and for the day.
NextQuery ==
    \/ \E w \in Weeks : UpsertPaper(PaperA, w, NoArgs)
    \/ UpsertPaper(PaperB, Week03, NoArgs)
    \/ \E p \in PaperIds, s \in Statuses, i \in BOOLEAN :
           BelowCap(p, i, SmallRetryCap) /\ UpdateStatus(p, s, None, i)
    \/ \E q \in Weeks, t \in Statuses,
          n \in {SmallRetryCap, DefaultMaxRetries} :
           GetPapersForProcessingCall(q, t, n, 0)

SpecQuery == Init /\ [][NextQuery]_vars

\* Two papers scraped from the week page or from the day pages; the first
\* is also stored by hand, downloaded and advanced, and scraped again.
NextFetch ==
    \/ Tick
    \/ UpsertPaper(PaperA, Week03, DownloadArgs)
    \/ UpdateStatus(PaperA, Status_PDF_OK, None, FALSE)
    \/ \E m \in MaxPapersInputs, wp \in FullWeekPages :
           FetchWeeklyPapers(Week03, m, wp, QuietDays)
    \/ \E m \in MaxPapersInputs, wp \in EmptyWeekPages, dp \in DayPageSets :
           FetchWeeklyPapers(Week03, m, wp, dp)

SpecFetch == Init /\ [][NextFetch]_vars

\* The statuses a stage records: its success and its failure.
StageStatuses == {Status_PDF_OK, Status_ERROR}

\* Two papers under one week, a stage succeeding or failing on either,
\* also before the paper is stored.
NextStage ==
    \/ Tick
    \/ \E p \in PaperIds : UpsertPaper(p, Week03, NoArgs)
    \/ \E p \in PaperIds, s \in StageStatuses, e \in Errors, i \in BOOLEAN :
           BelowCap(p, i, SmallRetryCap) /\ UpdateStatus(p, s, e, i)

SpecStage == Init /\ [][NextStage]_vars

\* How a write may fail: not at all, in the statement, at the commit.
Faults == {None, "execute", "commit"}

\* Two papers stored, the first also downloaded, and advanced or failed
\* while the store may fail at any write.
NextUnit ==
    \/ Tick
    \/ \E a \in {NoArgs, DownloadArgs}, f \in Faults : UpsertPaperUnit(PaperA, Week03, a, f)
    \/ \E f \in Faults : UpsertPaperUnit(PaperB, Week03, NoArgs, f)
    \/ \E p \in PaperIds, s \in StageStatuses, i \in BOOLEAN, f \in Faults :
           BelowCap(p, i, SmallRetryCap) /\ UpdateStatusUnit(p, s, None, i, f)

SpecUnit == Init /\ [][NextUnit]_vars

\* What the video stage has supplied for a finished paper.
FinishedArgs ==
    [NoArgs EXCEPT !.title = "A title",
                   !.hf_url = "https://huggingface.co/papers/2601.0325",
                   !.pdf_path = "/pdf/p.pdf",
                   !.video_path = "/video/p.mp4"]

\* Two papers, the first of any status and stored under the week or its
\* Monday, bare or finished, the second new, downloaded or finished and
\* stored under the week or another week, and the digest of either week.
NextDigest ==
    \/ \E w \in Weeks, a \in {NoArgs, FinishedArgs} : UpsertPaper(PaperA, w, a)
    \/ \E w \in {Week03, P_2026_01} : UpsertPaper(PaperB, w, NoArgs)
    \/ \E s \in Statuses : UpdateStatus(PaperA, s, None, FALSE)
    \/ \E s \in {Status_PDF_OK, Status_VIDEO_OK} : UpdateStatus(PaperB, s, None, FALSE)
    \/ \E w \in {Week03, P_2026_01}, include_all \in BOOLEAN : GenerateDigest(w, include_all)

SpecDigest == Init /\ [][NextDigest]_vars

\* What the video stage supplies: the video, the slides and the status.
VideoArgs ==
    [NoArgs EXCEPT !.video_path = "p.mp4", !.slides_path = "p.pdf",
                   !.status = Status_VIDEO_OK]

\* The periods published.
PublishWeeks == {Week03, P_2026_01}

\* Two papers with a video, the first under either week and the second
\* under the first week, and the weeks published.
NextPublish ==
    \/ Tick
    \/ \E w \in PublishWeeks : UpsertPaper(PaperA, w, VideoArgs)
    \/ UpsertPaper(PaperB, Week03, VideoArgs)
    \/ \E w \in PublishWeeks : PublishWeek(w)

SpecPublish == Init /\ [][NextPublish]_vars

\* Two processes calling upsert_paper for one identifier, each with its
\* own parameters, their lookups, statements and commits in any order.
NextRace ==
    \/ Tick
    \/ \E p \in Procs, a \in RaceArgs : BeginUpsert(p, PaperA, Week03, a)
    \/ \E p \in Procs : ExecuteUpsert(p)
    \/ \E p \in Procs : UpsertLocked(p)
    \/ \E p \in Procs : CommitUpsert(p)

SpecRace == Init /\ [][NextRace]_vars

\* ------------------------------------------------------------- claims

\* The place of a status on the ladder; ERROR and anything else is off it.
Rank(s) ==
    CASE s = "NEW" -> 1 [] s = "PDF_OK" -> 2 [] s = "NBLM_OK" -> 3
      [] s = "VIDEO_OK" -> 4 [] OTHER -> 0

RowsOf(table, paper_id) == {r \in table : r.paper_id = paper_id}

\* The last step was a call of upsert_paper on an identifier not in the store.
InsertedLast == last.op = "upsert_paper" /\ ~last.existed

\* C1 as stated: upsert_paper on an identifier that is not in the store
\* creates exactly one row for it, with status NEW and retry_count 0.
C1_AsStated ==
    InsertedLast =>
        /\ Cardinality(RowsOf(papers, last.paper_id)) = 1
        /\ \A r \in RowsOf(papers, last.paper_id) :
               r.status = "NEW" /\ r.retry_count = 0

\* C1 amended: upsert_paper on an identifier that is not in the store
\* creates exactly one row for it, with retry_count 0 and with status NEW
\* when the call passes no status (None or the empty string), and the
\* status the call passes otherwise.
C1_InsertCreatesOneRow ==
    InsertedLast =>
        /\ Cardinality(RowsOf(papers, last.paper_id)) = 1
        /\ \A r \in RowsOf(papers, last.paper_id) :
               /\ r.retry_count = 0
               /\ last.args.status \in {None, ""} => r.status = "NEW"
               /\ last.args.status \notin {None, ""} => r.status = last.args.status

C1_Witness ==
    /\ InsertedLast
    /\ last.args.status = "PDF_OK"
    /\ \E r \in papers : r.paper_id = last.paper_id /\ r.status = "PDF_OK"

\* C3 as stated: no call takes a paper from a later ladder status back to
\* an earlier one.
C3_AsStated ==
    [][\A r \in papers, n \in papers' :
           (r.paper_id = n.paper_id /\ Rank(r.status) > 0 /\ Rank(n.status) > 0)
               => Rank(n.status) >= Rank(r.status)]_vars

\* C4 as stated: a paper whose status is ERROR and whose retry_count is
\* below the retry bound is returned by get_papers_for_processing for its
\* period (for some target status).
C4_AsStated ==
    \A r \in papers :
        (r.status = "ERROR" /\ r.retry_count < DefaultMaxRetries) =>
            \E t \in Statuses :
                \E i \in DOMAIN GetPapersForProcessing(papers, r.week_id, t, DefaultMaxRetries, 0) :
                    GetPapersForProcessing(papers, r.week_id, t, DefaultMaxRetries, 0)[i] = r

\* The identifiers get_papers_for_processing returns.
ReturnedIds(table, week_id, target_status, max_retries) ==
    LET rows == GetPapersForProcessing(table, week_id, target_status, max_retries, 0)
    IN {rows[i].paper_id : i \in DOMAIN rows}

\* C5: with the retry bound at 3, a paper on which update_status was
\* called three times with increment_retry=True is returned by
\* get_papers_for_processing for no period and no target status, whatever
\* calls followed.
C5_ExcludedAfterThreeFailures ==
    \A p \in PaperIds :
        failed_attempts[p] >= 3 =>
            \A w \in Weeks, t \in Statuses :
                p \notin ReturnedIds(papers, w, t, DefaultMaxRetries)

\* Three failures, then a successful status update and an upsert.
C5_Witness ==
    /\ failed_attempts[PaperA] = 3
    /\ last.op = "upsert_paper" /\ last.existed /\ last.paper_id = PaperA
    /\ \E r \in papers : r.paper_id = PaperA /\ r.status = "NEW" /\ r.last_error = None

\* The last step was a call, not the passing of time.
CallStep == now' = now

\* C7 as stated: no update_status call that records a ladder status with
\* no error changes retry_count.
C7_AsStated ==
    [][(CallStep /\ last'.op = "update_status"
            /\ Rank(last'.status) > 0 /\ last'.error = None)
         => \A r \in papers, n \in papers' :
                r.paper_id = n.paper_id => n.retry_count = r.retry_count]_vars

\* C7 amended: retry_count changes only in an update_status call with
\* increment_retry=True, which raises it by exactly 1 whatever status and
\* error it records; upsert_paper and update_status with
\* increment_retry=False leave it as it was.
C7_RetryFollowsFlag ==
    [][CallStep =>
         \A r \in papers, n \in papers' :
             r.paper_id = n.paper_id =>
                 n.retry_count =
                     r.retry_count +
                         (IF last'.op = "update_status" /\ last'.increment_retry
                             /\ last'.paper_id = r.paper_id
                          THEN 1 ELSE 0)]_vars

\* An update_status that records a ladder status with no error and still
\* raises retry_count.
C7_Witness ==
    /\ last.op = "update_status" /\ last.existed
    /\ last.increment_retry /\ last.status = "PDF_OK" /\ last.error = None
    /\ \E r \in papers : r.paper_id = last.paper_id /\ r.retry_count = 2

\* The parameters a call of upsert_paper supplied.
Supplied(args) == {f \in OptFields : args[f] # None}

\* C2: upsert_paper on an existing identifier leaves one row for it, in
\* which every supplied optional field holds the supplied value,
\* updated_at holds the time of the call, and every other field (status,
\* retry_count, last_error and week_id included) holds its prior value.
C2_UpsertChangesOnlySupplied ==
    [][(CallStep /\ last'.op = "upsert_paper" /\ last'.existed) =>
          \A r \in RowsOf(papers, last'.paper_id) :
              /\ Cardinality(RowsOf(papers', r.paper_id)) = 1
              /\ \A n \in RowsOf(papers', r.paper_id) :
                     /\ \A f \in Supplied(last'.args) : n[f] = last'.args[f]
                     /\ n.updated_at = now
                     /\ \A f \in (DOMAIN r \ Supplied(last'.args)) \ {"updated_at"} :
                            n[f] = r[f]]_vars

\* An upsert at time 1 that supplied only pdf_path and status, on a row
\* that kept its title and its error text.
C2_Witness ==
    /\ last.op = "upsert_paper" /\ last.existed
    /\ Supplied(last.args) = {"pdf_path", "status"}
    /\ \E r \in papers :
           /\ r.paper_id = last.paper_id
           /\ r.title = "" /\ r.last_error = None /\ r.retry_count = 0
           /\ r.pdf_path = "/pdf/p.pdf" /\ r.status = "PDF_OK"
           /\ r.updated_at = 1

\* --- ISO 8601 week dates, by the day of the year and the day of the week

LeapYear(y) == IF y % 400 = 0 THEN TRUE ELSE IF y % 100 = 0 THEN FALSE ELSE y % 4 = 0

DayOfYear(y, m, d) ==
    <<0, 31, 59, 90, 120, 151, 181, 212, 243, 273, 304, 334>>[m] + d
        + (IF m > 2 /\ LeapYear(y) THEN 1 ELSE 0)

\* 1 for Monday to 7 for Sunday (Sakamoto's method).
IsoWeekday(y, m, d) ==
    LET yy == IF m < 3 THEN y - 1 ELSE y
        dow == (yy + (yy \div 4) - (yy \div 100) + (yy \div 400)
                  + <<0, 3, 2, 5, 0, 3, 5, 1, 4, 6, 2, 4>>[m] + d) % 7
    IN IF dow = 0 THEN 7 ELSE dow

\* 53 when 1 January is a Thursday, or a Wednesday of a leap year; else 52.
IsoWeeksInYear(y) ==
    IF IsoWeekday(y, 1, 1) = 4 \/ (LeapYear(y) /\ IsoWeekday(y, 1, 1) = 3)
    THEN 53 ELSE 52

\* The ISO year and week a calendar date falls in.
IsoWeekOf(y, m, d) ==
    LET w == (DayOfYear(y, m, d) - IsoWeekday(y, m, d) + 10) \div 7
    IN IF w < 1 THEN <<y - 1, IsoWeeksInYear(y - 1)>>
       ELSE IF w > IsoWeeksInYear(y) THEN <<y + 1, 1>>
       ELSE <<y, w>>

\* A stored period that reads YYYY-MM-DD and names a calendar date.
IsDateText(p) ==
    /\ Len(p) = 10
    /\ \A i \in {1, 2, 3, 4, 6, 7, 9, 10} : p[i] \in Digits
    /\ p[5] = "-" /\ p[8] = "-"

DateYear(p) == ParseInt(SubSeq(p, 1, 4))
DateMonth(p) == ParseInt(SubSeq(p, 6, 7))
DateDay(p) == ParseInt(SubSeq(p, 9, 10))

\* The stored period is one of the seven dates of ISO week `week` of `year`.
DateOfIsoWeek(p, year, week) ==
    /\ IsDateText(p)
    /\ DateMonth(p) \in 1..12
    /\ DateDay(p) >= 1
    /\ IsoWeekOf(DateYear(p), DateMonth(p), DateDay(p)) = <<year, week>>

\* The rows a period identifier is meant to match.
MeantToMatch(table, q) ==
    IF IsWeekFormat(q)
    THEN {r \in table :
             \/ r.week_id = q
             \/ DateOfIsoWeek(r.week_id, ParseInt(SubSeq(q, 1, 4)), ParseInt(SubSeq(q, 6, 7)))}
    ELSE {r \in table : r.week_id = q}

\* What the last period query returned is what `rows` would give (every
\* row of this specification has status NEW and retry_count 0).
QueryReturned(rows) ==
    IF last.op = "count_papers" THEN last.result = Cardinality(rows)
    ELSE /\ Len(last.result) = Cardinality(rows)
         /\ {last.result[i] : i \in DOMAIN last.result} = rows

PeriodQueryLast == last.op \in {"list_papers", "count_papers", "get_papers_for_processing"}

\* The week-shaped identifier names a week its ISO year has.
NamesIsoWeek(q) ==
    /\ IsWeekFormat(q)
    /\ ParseInt(SubSeq(q, 6, 7)) >= 1
    /\ ParseInt(SubSeq(q, 6, 7)) <= IsoWeeksInYear(ParseInt(SubSeq(q, 1, 4)))

\* C8 as stated: a week-shaped identifier matches exactly the records
\* stored under it or under one of the seven dates of that ISO week; a
\* day-shaped identifier matches exactly the records stored under it.
C8_AsStated == PeriodQueryLast => QueryReturned(MeantToMatch(papers, last.week_id))

\* C8 amended: for list_papers, count_papers and get_papers_for_processing,
\* a week-shaped identifier YYYY-WW whose WW is a week of ISO year YYYY
\* (01 to 52, or 53 in a long year) matches exactly the records stored
\* under it or under one of the seven dates, Monday to Sunday, of that ISO
\* week; a day-shaped identifier matches exactly the records stored under it.
C8_PeriodMatching ==
    (PeriodQueryLast /\ (IsWeekFormat(last.week_id) => NamesIsoWeek(last.week_id)))
        => QueryReturned(MeantToMatch(papers, last.week_id))

\* A query for week 53 of 2026 that found the paper stored under Sunday
\* 3 January 2027 and left out the paper stored under week 1.
C8_Witness ==
    /\ last.op = "list_papers" /\ last.week_id = P_2026_53
    /\ Len(last.result) = 1 /\ last.result[1].week_id = D_2027_01_03
    /\ \E r \in papers : r.week_id = P_2026_01

\* C6: get_papers_for_processing(week, target_status=X, max_retries=N)
\* returns, each once and in ascending paper_id order, exactly the records
\* that match the period, whose status strictly precedes X on the ladder
\* NEW, PDF_OK, NBLM_OK, VIDEO_OK and whose retry_count is less than N;
\* for X = PDF_OK those are NEW records only.
C6_ReadyForStage ==
    last.op = "get_papers_for_processing" =>
        /\ {last.result[i] : i \in DOMAIN last.result} =
               {r \in MeantToMatch(papers, last.week_id) :
                   /\ Rank(r.status) > 0
                   /\ Rank(r.status) < Rank(last.target_status)
                   /\ r.retry_count < last.max_retries}
        /\ \A i, j \in DOMAIN last.result :
               i < j => TextLess(last.result[i].paper_id, last.result[j].paper_id)
        /\ last.target_status = "PDF_OK" =>
               \A i \in DOMAIN last.result : last.result[i].status = "NEW"

\* Both papers returned for NBLM_OK, one stored under the week and one
\* under a day of it, after one of them failed once.
C6_Witness ==
    /\ last.op = "get_papers_for_processing"
    /\ last.week_id = Week03 /\ last.target_status = "NBLM_OK"
    /\ last.max_retries = DefaultMaxRetries
    /\ Len(last.result) = 2
    /\ last.result[1].paper_id = PaperA /\ last.result[1].week_id = Day0112
    /\ last.result[1].status = "PDF_OK" /\ last.result[1].retry_count = 1
    /\ last.result[2].paper_id = PaperB /\ last.result[2].week_id = Week03
    /\ \E p \in PaperIds : failed_attempts[p] > 0

\* ---- C9 and C10: scraping a week again; one row per identifier

\* The identifiers on the pages a call of fetch_weekly_papers asked for.
FoundIds(call) ==
    {call.week_page.links[i].paper_id : i \in DOMAIN call.week_page.links}
    \cup UNION {{call.day_pages[d].links[i].paper_id : i \in DOMAIN call.day_pages[d].links} :
                   d \in {call.fetched[k] : k \in DOMAIN call.fetched} \ {0}}

\* C9: a call of fetch_weekly_papers that finds, on a page it asks for, an
\* identifier already in the store leaves exactly one row for that
\* identifier, and that row is the row from before the call, every field
\* the same.
C9_RescrapeKeepsRow ==
    [][(CallStep /\ last'.op = "fetch_weekly_papers")
        => \A r \in papers :
               r.paper_id \in FoundIds(last') => RowsOf(papers', r.paper_id) = {r}]_vars

\* A call returned the first paper, whose row was stored by hand without a
\* title, downloaded, advanced, and last written before the call.
C9_Witness ==
    /\ last.op = "fetch_weekly_papers"
    /\ \E i \in DOMAIN last.result : last.result[i].paper_id = PaperA
    /\ \E r \in papers :
           /\ r.paper_id = PaperA
           /\ r.title = None
           /\ r.pdf_path # None
           /\ r.status = Status_PDF_OK
           /\ r.updated_at < now

\* C10: in every reachable state the store holds at most one record per
\* paper_id.
C10_OneRowPerPaperId ==
    \A r1, r2 \in papers : r1.paper_id = r2.paper_id => r1 = r2

\* upsert_paper was called for a stored identifier while both papers were
\* in the store.
C10_Witness ==
    /\ last.op = "upsert_paper"
    /\ last.existed
    /\ Cardinality(papers) = 2
    /\ \E r \in papers : r.paper_id = PaperB /\ r.title = "abc"

\* ---- C11: records are never removed; quarantine is not deletion

\* A paper at or over the default retry bound is in no result of
\* get_papers_for_processing, while get_paper finds it and list_papers and
\* count_papers, by its period, by its status or unfiltered, include it.
Quarantined(r) ==
    /\ \A t \in Statuses :
           r.paper_id \notin ReturnedIds(papers, r.week_id, t, DefaultMaxRetries)
    /\ GetPaper(papers, r.paper_id) = {r}
    /\ r \in SelectPapers(papers, r.week_id, None)
    /\ r \in SelectPapers(papers, <<>>, r.status)
    /\ CountPapers(papers, r.week_id, r.status) >= 1
    /\ CountPapers(papers, <<>>, None) >= 1

\* C11: a paper_id in the store is in the store after every step, and a
\* paper whose retry_count has reached the retry bound is left out of
\* get_papers_for_processing only: get_paper, list_papers and count_papers
\* still report it.
C11_NeverRemoved ==
    /\ [][\A r \in papers : RowsOf(papers', r.paper_id) # {}]_vars
    /\ [](\A r \in papers : r.retry_count >= DefaultMaxRetries => Quarantined(r))

\* A third failed attempt was just recorded on a paper whose status is on
\* the ladder below VIDEO_OK.
C11_Witness ==
    /\ last.op = "update_status"
    /\ last.increment_retry
    /\ \E r \in papers :
           /\ r.retry_count = DefaultMaxRetries
           /\ r.status = Status_NEW
           /\ Quarantined(r)

\* ---- C12: recording a stage failure

\* The step is update_status(paper_id, status, error=msg,
\* increment_retry=True) on a paper in the store.
FailureRecorded ==
    /\ CallStep
    /\ last'.op = "update_status"
    /\ last'.increment_retry
    /\ last'.error # None
    /\ last'.existed

\* C12 as stated: the call stores msg in last_error, raises retry_count
\* by 1 and sets the status, changes no other field of the paper and no
\* other paper, and returns the record.
C12_AsStated ==
    [][FailureRecorded =>
        \A r \in RowsOf(papers, last'.paper_id) :
            LET after == [r EXCEPT !.last_error = last'.error,
                                   !.retry_count = @ + 1,
                                   !.status = last'.status]
            IN papers' = (papers \ {r}) \cup {after} /\ last'.result = {after}]_vars

\* C12: update_status(paper_id, status, error=msg, increment_retry=True)
\* on a paper in the store stores msg in last_error, raises retry_count by
\* 1, sets the status and sets updated_at to the time of the call, changes
\* no other field of the paper and no other paper, and returns the
\* updated record.
C12_FailureRecorded ==
    [][FailureRecorded =>
        \A r \in RowsOf(papers, last'.paper_id) :
            LET after == [r EXCEPT !.last_error = last'.error,
                                   !.retry_count = @ + 1,
                                   !.status = last'.status,
                                   !.updated_at = now]
            IN papers' = (papers \ {r}) \cup {after} /\ last'.result = {after}]_vars

\* A failure was just recorded on the first paper, stored earlier, while
\* the second paper, untouched since it was stored, is in the store.
C12_Witness ==
    /\ last.op = "update_status" /\ last.increment_retry /\ last.existed
    /\ last.error = "boom" /\ last.status = Status_ERROR /\ last.paper_id = PaperA
    /\ \E r \in papers :
           /\ r.paper_id = PaperA /\ r.retry_count = 1 /\ r.last_error = "boom"
           /\ r.status = Status_ERROR /\ r.updated_at = now /\ now > 0
    /\ \E r \in papers :
           /\ r.paper_id = PaperB /\ r.status = Status_NEW /\ r.updated_at < now

\* ---- C20: update_status on an identifier that is not in the store

\* C20: update_status on a paper_id that is not in the store returns None
\* and leaves the store as it was: no row is created, no paper changes.
C20_MissingPaperUntouched ==
    [][(CallStep /\ last'.op = "update_status" /\ ~last'.existed)
        => (papers' = papers /\ last'.result = {})]_vars

\* A failure was just reported for the second paper, which is not in the
\* store, while the first paper is.
C20_Witness ==
    /\ last.op = "update_status" /\ ~last.existed /\ last.paper_id = PaperB
    /\ last.increment_retry /\ last.error = "boom"
    /\ RowsOf(papers, PaperB) = {}
    /\ RowsOf(papers, PaperA) # {}

\* ---- C13: a failed write is raised and rolled back

\* The step is a call of upsert_paper or update_status.
WriteStep == CallStep /\ last'.op \in {"upsert_paper", "update_status"}

\* C13: when a write of upsert_paper or update_status fails, in the
\* statement or at the commit, the exception reaches the caller and the
\* store is as it was before the call; the store changes only in a call
\* that did not raise.
C13_FailedWriteRolledBack ==
    [][WriteStep =>
        /\ last'.fault # None => (last'.raised /\ papers' = papers)
        /\ papers' # papers => ~last'.raised]_vars

\* The commit of a status update on a stored paper, which would have
\* changed its row, failed: the call raised and the row is as it was.
C13_Witness ==
    /\ last.op = "update_status" /\ last.fault = "commit" /\ last.raised
    /\ last.existed /\ last.status = Status_ERROR /\ last.increment_retry
    /\ \E r \in papers :
           /\ r.paper_id = last.paper_id
           /\ r.status = Status_NEW /\ r.retry_count = 0
    /\ Cardinality(papers) = 2

\* ---- C14 and C18: the digest

\* The records of the period of the last digest, and those of a status.
DigestPeriod == MeantToMatch(papers, last.week_id)

OfStatus(rows, status) == {r \in rows : r.status = status}

\* C14: stats.total of the digest JSON is the number of records matching
\* the period, and stats.video_ok, pdf_ok, new and error are the numbers
\* of those with status VIDEO_OK, PDF_OK, NEW and ERROR, whether or not
\* include_all is set.
C14_DigestStats ==
    last.op = "generate_digest" =>
        /\ last.json.stats.total = Cardinality(DigestPeriod)
        /\ last.json.stats.video_ok = Cardinality(OfStatus(DigestPeriod, Status_VIDEO_OK))
        /\ last.json.stats.pdf_ok = Cardinality(OfStatus(DigestPeriod, Status_PDF_OK))
        /\ last.json.stats.new = Cardinality(OfStatus(DigestPeriod, Status_NEW))
        /\ last.json.stats.error = Cardinality(OfStatus(DigestPeriod, Status_ERROR))

\* A digest without include_all of a week with two records, one stored
\* under the Monday of the week, one finished and one failed.
C14_Witness ==
    /\ last.op = "generate_digest" /\ ~last.include_all /\ last.week_id = Week03
    /\ last.json.stats.total = 2
    /\ last.json.stats.video_ok = 1
    /\ last.json.stats.error = 1
    /\ \E r \in papers : r.week_id = Day0112

\* The values of the first line of the Markdown document with this text.
MdValue(text) ==
    LET i == CHOOSE k \in DOMAIN last.md :
                 last.md[k].text = text /\ \A j \in 1..(k - 1) : last.md[j].text # text
    IN last.md[i].value

\* The identifiers and the statuses of the paper sections of the Markdown
\* document, in order.
RECURSIVE MdColumn(_, _)
MdColumn(lines, text) ==
    IF lines = <<>> THEN <<>>
    ELSE (IF Head(lines).text = text THEN <<Head(lines).value[1]>> ELSE <<>>)
         \o MdColumn(Tail(lines), text)

\* C18: the digest lists exactly the records of the period with status
\* VIDEO_OK without include_all and all records of the period with it,
\* each once; total_papers is the number of listed papers; the Markdown
\* document has a section per listed paper in the order of the JSON
\* document, and its summary shows the stats of the JSON document.
C18_DigestListing ==
    last.op = "generate_digest" =>
        LET listed == last.json.papers
            wanted == IF last.include_all THEN DigestPeriod
                      ELSE OfStatus(DigestPeriod, Status_VIDEO_OK)
        IN /\ {listed[i] : i \in DOMAIN listed} = {PaperData(r) : r \in wanted}
           /\ Len(listed) = Cardinality(wanted)
           /\ last.json.total_papers = Len(listed)
           /\ MdColumn(last.md, "**Paper ID:** ") = [i \in DOMAIN listed |-> listed[i].paper_id]
           /\ MdColumn(last.md, "**Status:** ") = [i \in DOMAIN listed |-> listed[i].status]
           /\ MdValue("- Total papers: ") = <<last.json.stats.total>>
           /\ MdValue("- Videos generated: ") = <<last.json.stats.video_ok>>
           /\ MdValue("- PDFs downloaded: ") = <<last.json.stats.pdf_ok>>
           /\ MdValue("- Pending: ") = <<last.json.stats.new>>
           /\ MdValue("- Errors: ") = <<last.json.stats.error>>

\* A digest with include_all that lists two papers of the week, one of
\* them not finished, and a digest without it would list one.
C18_Witness ==
    /\ last.op = "generate_digest" /\ last.include_all
    /\ last.json.total_papers = 2
    /\ last.json.stats.video_ok = 1
    /\ \E i \in DOMAIN last.json.papers : last.json.papers[i].status = Status_PDF_OK

\* ---- C15: a failed request yields nothing and stops nothing

\* The step is a call of fetch_weekly_papers.
FetchStep == CallStep /\ last'.op = "fetch_weekly_papers"

\* The pages a run reads papers from: the week page when it answered with
\* a paper link, the seven day pages otherwise.
PagesRead(call) ==
    IF call.week_page.ok /\ call.week_page.links # <<>>
    THEN <<call.week_page>> ELSE call.day_pages

\* The identifiers on the pages that answered, in the order of the pages,
\* each at its first place only.
RECURSIVE IdsOnPages(_, _)
IdsOnPages(seen, pages) ==
    IF pages = <<>> THEN seen
    ELSE IF ~Head(pages).ok \/ Head(pages).links = <<>>
    THEN IdsOnPages(seen, Tail(pages))
    ELSE LET id == Head(Head(pages).links).paper_id
             rest == <<[Head(pages) EXCEPT !.links = Tail(@)]>> \o Tail(pages)
         IN IF \E i \in DOMAIN seen : seen[i] = id
            THEN IdsOnPages(seen, rest)
            ELSE IdsOnPages(Append(seen, id), rest)

\* C15: in a run of fetch_weekly_papers with no maximum, a request that
\* fails adds nothing and ends nothing: the run returns the papers of the
\* pages that answered, those of the days before a failed day and those
\* of the days after it, and each of them is in the store.
C15_FailedFetchYieldsNothing ==
    [][(FetchStep /\ last'.max_papers = 0) =>
        /\ [i \in DOMAIN last'.result |-> last'.result[i].paper_id]
               = IdsOnPages(<<>>, PagesRead(last'))
        /\ \A i \in DOMAIN last'.result :
               RowsOf(papers', last'.result[i].paper_id) # {}]_vars

\* A run whose week request and Thursday request failed returned the
\* paper of Monday and the paper of Sunday.
C15_Witness ==
    /\ last.op = "fetch_weekly_papers" /\ last.max_papers = 0
    /\ ~last.week_page.ok
    /\ last.day_pages[1].ok /\ ~last.day_pages[4].ok /\ last.day_pages[7].ok
    /\ Len(last.result) = 2
    /\ last.result[1].paper_id = PaperB /\ last.result[2].paper_id = PaperA
    /\ Cardinality(papers) = 2

\* ---- C16: the week page first, the day pages as the fallback

\* The week-level fetch of the call returned at least one paper.
WeekHadPapers(call) == call.week_page.ok /\ call.week_page.links # <<>>

\* `dates` are the seven dates of ISO week `week` of `year`, earliest first.
DatesOfIsoWeek(dates, year, week) ==
    /\ Len(dates) = 7
    /\ \A i \in 1..7 : DateOfIsoWeek(dates[i], year, week)
    /\ \A i \in 1..6 : TextLess(dates[i], dates[i + 1])

\* The dates of the day pages are the seven dates of the ISO week the
\* identifier names, Monday to Sunday.
MondayToSunday(week_id) ==
    DatesOfIsoWeek(HfGetDatesForWeek(week_id), ParseInt(SubSeq(week_id, 1, 4)),
                   ParseInt(SubSeq(week_id, 6, 7)))

\* C16 as stated: the week page is fetched first; when it returned a
\* paper no day page is fetched, and when it returned none all seven day
\* pages are fetched, Monday to Sunday.
C16_AsStated ==
    /\ [][FetchStep =>
           /\ last'.fetched[1] = 0
           /\ WeekHadPapers(last') => last'.fetched = <<0>>
           /\ ~WeekHadPapers(last') => last'.fetched = <<0, 1, 2, 3, 4, 5, 6, 7>>]_vars
    /\ [](last.op = "fetch_weekly_papers" => MondayToSunday(last.week_id))

\* C16: the week page is fetched first; when it returned a paper no day
\* page is fetched; when it returned none the day pages are fetched in
\* order from Monday on, all seven unless max_papers is set and that many
\* papers have been collected, after which no further day is fetched.
C16_WeekThenDays ==
    /\ [][FetchStep =>
           /\ last'.fetched[1] = 0
           /\ WeekHadPapers(last') => last'.fetched = <<0>>
           /\ ~WeekHadPapers(last') =>
                  /\ last'.fetched = [i \in 1..Len(last'.fetched) |-> i - 1]
                  /\ Len(last'.fetched) - 1 \in 1..7
                  /\ Len(last'.fetched) - 1 < 7 =>
                         (last'.max_papers # 0 /\ Len(last'.result) >= last'.max_papers)]_vars
    /\ [](last.op = "fetch_weekly_papers" => MondayToSunday(last.week_id))

\* A run with a maximum of two whose week request failed went through
\* all seven days and returned the paper of Monday and the paper of Sunday.
C16_Witness ==
    /\ last.op = "fetch_weekly_papers" /\ last.max_papers = 2
    /\ ~WeekHadPapers(last)
    /\ last.fetched = <<0, 1, 2, 3, 4, 5, 6, 7>>
    /\ Len(last.result) = 2
    /\ last.result[2].paper_id = PaperA

\* ---- C17: each identifier handled once, new ones inserted as NEW

\* row is what a scrape of `paper` for week_id at time t inserts: status
\* NEW, no retry, the period, the title and the two URLs, nothing else.
ScrapedRow(row, paper, week_id, t) ==
    /\ row.paper_id = paper.paper_id
    /\ row.week_id = week_id
    /\ row.status = Status_NEW
    /\ row.retry_count = 0
    /\ row.title = paper.title /\ row.hf_url = paper.hf_url /\ row.pdf_url = paper.pdf_url
    /\ \A f \in OptFields \ {"title", "hf_url", "pdf_url", "status"} : row[f] = None
    /\ row.updated_at = t

\* C17: the list a run of fetch_weekly_papers returns has no paper_id
\* twice; every returned paper that was not in the store has exactly one
\* row after the run, with status NEW, retry_count 0, the requested
\* period, the title of the returned paper and the two URLs built from
\* its identifier; with no maximum every identifier on the pages read is
\* returned; and the run adds no other row.
C17_EachIdentifierOnce ==
    [][FetchStep =>
        LET result == last'.result
        IN /\ \A i, j \in DOMAIN result :
                  result[i].paper_id = result[j].paper_id => i = j
           /\ \A i \in DOMAIN result :
                  /\ result[i].hf_url = HfUrl(result[i].paper_id)
                  /\ result[i].pdf_url = PdfUrl(result[i].paper_id)
                  /\ RowsOf(papers, result[i].paper_id) = {} =>
                         /\ Cardinality(RowsOf(papers', result[i].paper_id)) = 1
                         /\ \A row \in RowsOf(papers', result[i].paper_id) :
                                ScrapedRow(row, result[i], last'.week_id, now)
           /\ last'.max_papers = 0 =>
                  {result[i].paper_id : i \in DOMAIN result}
                      = {IdsOnPages(<<>>, PagesRead(last'))[i] :
                            i \in DOMAIN IdsOnPages(<<>>, PagesRead(last'))}
           /\ \A row \in papers' \ papers :
                  \E i \in DOMAIN result : result[i].paper_id = row.paper_id]_vars

\* A run over day pages that link both papers on Tuesday and again on
\* Sunday returned each once and inserted both, the second under the
\* title made from its identifier.
C17_Witness ==
    /\ last.op = "fetch_weekly_papers" /\ last.max_papers = 0
    /\ ~WeekHadPapers(last)
    /\ Len(last.day_pages[2].links) = 2 /\ Len(last.day_pages[7].links) = 2
    /\ Len(last.result) = 2
    /\ \A r \in papers : r.status = Status_NEW /\ r.updated_at = now /\ r.week_id = Week03
    /\ \E r \in papers : r.paper_id = PaperB /\ r.title = "Paper 2601.03252"
    /\ Cardinality(papers) = 2

\* ---- C19: the index of published papers

\* The step is a call of publish_week.
PublishStep == CallStep /\ last'.op = "publish_week"

\* C19 as stated: after a call of publish_week no period of the index
\* holds a paper_id twice; the periods other than the published one keep
\* their entries; in the published period every entry keeps its place,
\* unchanged without force and replaced by an entry of the same paper
\* with force, and new papers come after them.
C19_AsStated ==
    [][PublishStep =>
        /\ \A w \in DOMAIN metadata'.weeks :
               \A i, j \in DOMAIN metadata'.weeks[w] :
                   metadata'.weeks[w][i].paper_id = metadata'.weeks[w][j].paper_id => i = j
        /\ \A w \in DOMAIN metadata.weeks :
               /\ w \in DOMAIN metadata'.weeks
               /\ w # last'.week_id => metadata'.weeks[w] = metadata.weeks[w]
               /\ w = last'.week_id =>
                      /\ Len(metadata'.weeks[w]) >= Len(metadata.weeks[w])
                      /\ \A i \in DOMAIN metadata.weeks[w] :
                             /\ metadata'.weeks[w][i].paper_id = metadata.weeks[w][i].paper_id
                             /\ ~last'.force => metadata'.weeks[w][i] = metadata.weeks[w][i]]_vars

\* ---- C22: retry_count only grows

\* C22: in every step the retry_count of a paper stays the same or grows
\* by 1, whatever upsert_paper or update_status call the step is, and it
\* always equals the number of update_status calls with
\* increment_retry=True made on the paper since it was stored, at
\* whatever stage they were made.
C22_RetryNeverReset ==
    /\ [][\A r \in papers, n \in papers' :
             r.paper_id = n.paper_id =>
                 n.retry_count \in {r.retry_count, r.retry_count + 1}]_vars
    /\ [](\A r \in papers : r.retry_count = failed_attempts[r.paper_id])

\* A paper that failed three times was just advanced to NBLM_OK and
\* still counts three retries.
C22_Witness ==
    /\ last.op = "update_status" /\ ~last.increment_retry /\ last.existed
    /\ last.status = Status_NBLM_OK /\ last.error = None
    /\ \E r \in papers : r.paper_id = last.paper_id /\ r.retry_count = 3

\* ---- C23: last_error is overwritten by update_status, kept by upsert_paper

\* C23: after update_status on a stored paper its last_error is the error
\* argument of the call, None when none was given; after upsert_paper
\* without last_error on a stored paper its last_error is what it was.
C23_LastErrorOverwritten ==
    [][CallStep =>
        \A r \in papers, n \in papers' :
            (r.paper_id = n.paper_id /\ last'.paper_id = r.paper_id) =>
                /\ last'.op = "update_status" => n.last_error = last'.error
                /\ (last'.op = "upsert_paper" /\ last'.args.last_error = None)
                       => n.last_error = r.last_error]_vars

\* A paper with a recorded failure was just advanced without an error
\* and holds no error text.
C23_Witness ==
    /\ last.op = "update_status" /\ last.existed /\ last.error = None
    /\ last.status = Status_PDF_OK /\ ~last.increment_retry
    /\ \E r \in papers :
           r.paper_id = last.paper_id /\ r.last_error = None /\ r.retry_count = 1

\* ---- C24: the period of a record is fixed at creation

\* C24: no call of upsert_paper or update_status changes the week_id of a
\* stored paper, whatever week_id upsert_paper is given.
C24_PeriodFixed ==
    [][\A r \in papers, n \in papers' :
          r.paper_id = n.paper_id => n.week_id = r.week_id]_vars

\* upsert_paper was just called with the day on a paper stored under the
\* week, which is still stored under the week.
C24_Witness ==
    /\ last.op = "upsert_paper" /\ last.existed /\ last.week_id = Day0112
    /\ \E r \in papers : r.paper_id = last.paper_id /\ r.week_id = Week03

\* ---- C21: two upsert_paper calls racing for one identifier

\* Process p takes the step that ends its lookup-then-write window, having
\* found nothing while a row for the identifier is in the store by now.
LosesRace(p) ==
    /\ inflight[p].pc = "looked"
    /\ inflight'[p].pc # "looked"
    /\ inflight[p].existing = {}
    /\ RowsOf(papers, inflight[p].paper_id) # {}

\* C21: however two upsert_paper calls for one identifier interleave,
\* the store never holds two rows for it and holds exactly one after a
\* call that returned; a call that found no row and writes after the
\* other call's row is in the store raises, ends, and leaves the store
\* as it is, the winner's row included.
C21_RaceLoserFails ==
    /\ [](\A r \in papers : RowsOf(papers, r.paper_id) = {r})
    /\ []((last.op = "upsert_paper" /\ ~last.raised)
            => Cardinality(RowsOf(papers, last.paper_id)) = 1)
    /\ [][\A p \in Procs :
             LosesRace(p) =>
                 /\ papers' = papers
                 /\ inflight'[p].pc = "idle"
                 /\ last'.op = "upsert_paper" /\ last'.proc = p /\ last'.raised]_vars

\* The second process, which found no row, ended with an error; the row
\* in the store is the one the first process inserted.
C21_Witness ==
    /\ last.op = "upsert_paper" /\ last.proc = 2 /\ last.raised /\ ~last.existed
    /\ last.args.title = "Another title"
    /\ \A q \in Procs : inflight[q].pc = "idle"
    /\ \E r \in papers :
           r.paper_id = PaperA /\ r.title = "A title" /\ r.status = Status_NEW
    /\ Cardinality(papers) = 1

====
